---- MODULE Spec2Model ----
(***************************************************************************)
(* Payment confirmation orchestration of froide-payment's frontend:        *)
(* the Payment engine (base.ts), the UI adapters (ui.ts) and the four      *)
(* payment method handlers (creditcard.ts, sepa.ts, paymentrequest.ts,     *)
(* quickpayment.ts).                                                       *)
(*                                                                         *)
(* Every `await` of the code is a suspension point: the synchronous code   *)
(* up to the next await is one action, and the result the awaited call     *)
(* delivers (processor result, server response, transport exception) is    *)
(* the input of the action that resumes the flow.  Each run of a handler   *)
(* is a flow held in a slot of `flows`; the calls the flow makes on its    *)
(* collaborators (UI adapter, processor, server, native sheet, widget) are *)
(* appended to the flow's trace in program order.                          *)
(***************************************************************************)
EXTENDS Naturals, Sequences, FiniteSets

VARIABLES
  initPc,      \* position of Payment.init: "constructed", "loading", "ready", "reload"
  initTrace,   \* calls made by the constructor and by init(), in order
  stripe,      \* Payment.stripe is set
  elements,    \* Payment.elements is set
  config,      \* Payment.config (the fields the handlers read or write)
  ui,          \* Payment.ui and the DOM nodes it drives
  location,    \* document.location as left by the script
  card,        \* CreditCard.card is set
  sepa,        \* SepaDebit.iban / ownerInput are set
  ibanForm,    \* the IBAN field, the additional fields and the country select
  pr,          \* PaymentRequestButton: setup position, container, listener
  qp,          \* QuickPaymentButtonMethod: elements, confirm listener
  flows        \* the handler runs started on this page load

vars == <<initPc, initTrace, stripe, elements, config, ui, location,
          card, sepa, ibanForm, pr, qp, flows>>

\* Number of handler runs (submissions, sheet selections, widget confirms)
\* followed on one page load.
MaxFlows == 2

FlowIds == 1..MaxFlows

-----------------------------------------------------------------------------
(* Values exchanged with the collaborators *)

NoSecret == ""
ConfiguredSecrets == {NoSecret, "sec_1"}
ServerSecrets == {NoSecret, "sec_2"}
Intervals == {0, 1}
SuccessUrls == {"/thanks"}
ServerUrls == {"", "/srv"}

\* PaymentProcessingResponse (types.ts); error is a string, "" when absent.
Responses ==
  [error : {"", "server error"}, requires_action : BOOLEAN, success : BOOLEAN,
   secret : ServerSecrets, type : {"payment_intent", "setup_intent"},
   customer : BOOLEAN, successurl : ServerUrls]

NoResponse ==
  [error |-> "", requires_action |-> FALSE, success |-> FALSE, secret |-> NoSecret,
   type |-> "setup_intent", customer |-> FALSE, successurl |-> ""]

\* The responses the server's contract allows (at most one of error,
\* requires_action and success is set), reduced to the fields the handler
\* receiving them reads: the card and the wallet-button handlers read error,
\* requires_action, success and the secret, and may be sent a successurl with
\* a success; the mandate handler reads error, type, customer and the secret;
\* the express-checkout handler reads error, the secret and successurl.
ErrorResponse == [NoResponse EXCEPT !.error = "server error"]
CardResponses ==
  {ErrorResponse, NoResponse, [NoResponse EXCEPT !.success = TRUE],
   [NoResponse EXCEPT !.success = TRUE, !.successurl = "/srv"]}
    \cup {[NoResponse EXCEPT !.requires_action = TRUE, !.secret = x] :
            x \in ServerSecrets}
SepaResponses ==
  {ErrorResponse}
    \cup {r \in Responses : r.error = "" /\ ~r.requires_action /\ ~r.success
                             /\ r.successurl = ""}
QuickResponses ==
  {ErrorResponse}
    \cup {r \in Responses : r.error = "" /\ ~r.requires_action /\ ~r.success
                             /\ ~r.customer /\ r.type = "setup_intent"}

\* What fetch(...) followed by response.json() delivers: a parsed body, or a
\* rejection with the transport's own exception.
FetchOutcomes(responses) ==
  {[ok |-> TRUE, err |-> "", resp |-> r] : r \in responses}
    \cup {[ok |-> FALSE, err |-> "Failed to fetch", resp |-> NoResponse]}

\* What a processor confirm call delivers: {error}, {paymentIntent: {status}},
\* or an exception.  msg "" is an error without a message.
Statuses == {"succeeded", "requires_action", "processing"}
ConfirmResults ==
  {[kind |-> "error", msg |-> m, status |-> ""] : m \in {"", "declined"}}
    \cup {[kind |-> "ok", msg |-> "", status |-> s] : s \in Statuses}
    \cup {[kind |-> "throw", msg |-> "IntegrationError", status |-> ""]}

\* The results that differ in what the mandate and the express-checkout
\* handlers read of them (the error only).
ErrorOrNot == {r \in ConfirmResults : r.kind = "ok" => r.status = "succeeded"}

\* What createPaymentMethod delivers: {error}, {paymentMethod}, neither, or
\* an exception.
MethodResults ==
  {[kind |-> "error", msg |-> m] : m \in {"", "declined"}}
    \cup {[kind |-> k, msg |-> ""] : k \in {"method", "empty"}}
    \cup {[kind |-> "throw", msg |-> "IntegrationError"]}

\* One call of a flow on a collaborator, or one result delivered to it.
Ev(e, a, p) == [ev |-> e, arg |-> a, pm |-> p]

\* The result r of a processor call, as delivered to the flow.
Settled(r) ==
  Ev("settled", IF r.kind = "ok" THEN r.status ELSE r.kind, r.msg)

-----------------------------------------------------------------------------
(* UI adapters (ui.ts) *)

showLoading(u) ==
  IF u.kind = "default"
    THEN [u EXCEPT !.loadingHidden = FALSE, !.containerHidden = TRUE]
    ELSE u

stopLoading(u) ==
  IF u.kind = "default"
    THEN [u EXCEPT !.loadingHidden = TRUE, !.containerHidden = FALSE]
    ELSE u

setPending(u, pending) ==
  IF u.kind = "default"
    THEN LET b == [u EXCEPT !.formButtonDisabled = pending]
         IN  IF pending THEN showLoading(b) ELSE stopLoading(b)
    ELSE u

showError(u, error) ==
  IF u.kind = "default"
    THEN setPending([u EXCEPT !.errorHidden = FALSE,
                              !.errorText = IF error = "" THEN "Card error" ELSE error],
                    FALSE)
    ELSE [u EXCEPT !.errorContainer = IF error = "" THEN "Error" ELSE error]

-----------------------------------------------------------------------------
(* Payment (base.ts) *)

\* The promise sendPaymentData returns for a fetch outcome: the parsed body,
\* or the rejection of fetch / response.json() passed on as it is.
sendPaymentData(o) ==
  IF o.ok THEN [rejected |-> FALSE, reason |-> "", resp |-> o.resp]
          ELSE [rejected |-> TRUE, reason |-> o.err, resp |-> NoResponse]

\* document.location.href = this.config.successurl || '/'
onSuccess(cfg) == IF cfg.successurl = "" THEN "/" ELSE cfg.successurl

\* init() up to `await this.stripePromise`
PaymentInit ==
  /\ initPc = "constructed"
  /\ initPc' = "loading"
  /\ ui' = setPending(ui, TRUE)
  /\ initTrace' = Append(initTrace, "setPending(true)")
  /\ UNCHANGED <<ibanForm, stripe, elements, config, location, card, sepa, pr, qp, flows>>

\* What `await this.stripePromise` delivers: the SDK handle, null, or the
\* rejection of the promise.
LoadOutcomes == {"stripe", "null", "rejected"}

\* init() after the SDK promise settled
PaymentInitResolve(loaded) ==
  /\ initPc = "loading"
  /\ CASE loaded = "rejected" ->
            /\ initPc' = "failed"
            /\ initTrace' = Append(initTrace, "rejected")
            /\ UNCHANGED <<stripe, elements, ui, location>>
       [] loaded = "null" ->
            /\ initPc' = "reload"
            /\ location' = "reload"
            /\ initTrace' = Append(initTrace, "reload")
            /\ UNCHANGED <<stripe, elements, ui>>
       [] loaded = "stripe" ->
            /\ initPc' = "ready"
            /\ stripe' = TRUE
            /\ elements' = TRUE
            /\ ui' = setPending(ui, FALSE)
            /\ initTrace' = initTrace \o <<"stripe", "elements", "setPending(false)">>
            /\ UNCHANGED location
  /\ UNCHANGED <<ibanForm, config, card, sepa, pr, qp, flows>>

-----------------------------------------------------------------------------
(* Flows *)

NoFlow == [kind |-> "none", pc |-> "none", trace |-> <<>>, fault |-> "none",
           resp |-> NoResponse]

\* A run of a handler takes the first slot that holds no running one. The
\* record of a run that ended is kept until the next step of any run.
FreeSlot(f) ==
  /\ flows[f].pc \in {"none", "done"}
  /\ \A g \in FlowIds : g < f => flows[g].pc \notin {"none", "done"}

Retired == [g \in FlowIds |-> IF flows[g].pc = "done" THEN NoFlow ELSE flows[g]]

Running(f) == [Retired EXCEPT ![f] = IF flows[f].pc = "done" THEN NoFlow ELSE flows[f]]

\* The flow f moved to position p having made the calls evs; flt classifies
\* the way it ended ("none" while running or on success).
Upd(f, k, p, evs, flt) ==
  [Running(f) EXCEPT ![f] = [@ EXCEPT !.kind = k, !.pc = p, !.trace = @ \o evs,
                                 !.fault = flt]]

\* The same, the flow having received the server response r.
UpdR(f, k, p, evs, flt, r) ==
  [Running(f) EXCEPT ![f] = [@ EXCEPT !.kind = k, !.pc = p, !.trace = @ \o evs,
                                 !.fault = flt, !.resp = r]]

\* The page is displayed and its form can be submitted by the user: a
\* disabled default button or a hidden container blocks the submission.
PageShown == location = "page"
UserCanSubmit == PageShown /\ ~ui.containerHidden /\ ~ui.formButtonDisabled

-----------------------------------------------------------------------------
(* CreditCard (creditcard.ts) *)

\* A setup() that creates the card element without looking at the engine.
CreditCardSetupUnguarded ==
  /\ PageShown
  /\ ~card
  /\ card' = TRUE
  /\ UNCHANGED <<ibanForm, initPc, initTrace, stripe, elements, config, ui, location,
                 sepa, pr, qp, flows>>

\* setup(): creates and mounts the card element
CreditCardSetup ==
  /\ PageShown
  /\ ~card
  /\ elements
  /\ card' = TRUE
  /\ UNCHANGED <<ibanForm, initPc, initTrace, stripe, elements, config, ui, location,
                 sepa, pr, qp, flows>>

\* handleCardPayment up to its await: the position reached, the calls made.
handleCardPayment(cfg) ==
  IF ~stripe \/ cfg.clientSecret = NoSecret
    THEN [pc |-> "done", evs |-> <<>>, fault |-> "uninit"]
    ELSE [pc |-> "confirm",
          evs |-> <<Ev("confirmCardPayment", cfg.clientSecret, "card")>>,
          fault |-> "none"]

\* submit() up to its first await
CreditCardSubmit(f) ==
  /\ UserCanSubmit
  /\ FreeSlot(f)
  /\ IF ~card
       THEN \* returns before preventDefault: the browser submits the form
            /\ flows' = Upd(f, "card", "done", <<>>, "uninit")
            /\ location' = "formpost"
            /\ UNCHANGED ui
       ELSE IF config.clientSecret = NoSecret \/ ~stripe
         THEN /\ flows' = Upd(f, "card", "done", <<Ev("preventDefault", "", "")>>, "uninit")
              /\ UNCHANGED <<ui, location>>
         ELSE /\ ui' = setPending(ui, TRUE)
              /\ UNCHANGED location
              /\ IF config.interval = 0
                   THEN LET h == handleCardPayment(config)
                        IN  flows' = Upd(f, "card", h.pc,
                                         <<Ev("preventDefault", "", ""),
                                           Ev("setPending", "true", "")>> \o h.evs,
                                         h.fault)
                   ELSE flows' = Upd(f, "card", "createPaymentMethod",
                                     <<Ev("preventDefault", "", ""),
                                       Ev("setPending", "true", ""),
                                       Ev("createPaymentMethod", "", "card")>>,
                                     "none")
  /\ UNCHANGED <<ibanForm, initPc, initTrace, stripe, elements, config, card, sepa, pr, qp>>

\* A continuation that starts the confirmation together with the round-trip.
CreditCardMethodCreatedEager(f, r) ==
  /\ flows[f].kind = "card"
  /\ flows[f].pc = "createPaymentMethod"
  /\ CASE r.kind = "throw" ->
            /\ flows' = Upd(f, "card", "done", <<Settled(r)>>, "exception")
            /\ UNCHANGED ui
       [] r.kind = "error" ->
            /\ flows' = Upd(f, "card", "done",
                            <<Settled(r), Ev("showError", r.msg, "")>>, "processor")
            /\ ui' = showError(ui, r.msg)
       [] r.kind = "method" ->
            /\ flows' = Upd(f, "card", "send",
                            <<Settled(r), Ev("sendPaymentData", "payment_method_id", ""),
                              Ev("confirmCardPayment", config.clientSecret, "card")>>,
                            "none")
            /\ UNCHANGED ui
       [] OTHER ->
            /\ flows' = Upd(f, "card", "done", <<Settled(r)>>, "unexpected")
            /\ UNCHANGED ui
  /\ UNCHANGED <<ibanForm, initPc, initTrace, stripe, elements, config, location,
                 card, sepa, pr, qp>>

\* submit() after createPaymentMethod settled
CreditCardMethodCreated(f, r) ==
  /\ flows[f].kind = "card"
  /\ flows[f].pc = "createPaymentMethod"
  /\ CASE r.kind = "throw" ->
            /\ flows' = Upd(f, "card", "done", <<Settled(r)>>, "exception")
            /\ UNCHANGED ui
       [] r.kind = "error" ->
            /\ flows' = Upd(f, "card", "done",
                            <<Settled(r), Ev("showError", r.msg, "")>>, "processor")
            /\ ui' = showError(ui, r.msg)
       [] r.kind = "method" ->
            /\ flows' = Upd(f, "card", "send",
                            <<Settled(r), Ev("sendPaymentData", "payment_method_id", "")>>,
                            "none")
            /\ UNCHANGED ui
       [] OTHER ->
            /\ flows' = Upd(f, "card", "done", <<Settled(r)>>, "unexpected")
            /\ UNCHANGED ui
  /\ UNCHANGED <<ibanForm, initPc, initTrace, stripe, elements, config, location,
                 card, sepa, pr, qp>>

\* A response handler that confirms with the secret configured before.
handleCreditCardServerResponseStaleSecret(response, cfg, u, loc) ==
  IF response.error # ""
    THEN [cfg |-> cfg, pc |-> "done", evs |-> <<Ev("showError", response.error, "")>>,
          fault |-> "server", ui |-> showError(u, response.error), loc |-> loc]
    ELSE IF response.requires_action
      THEN LET h == handleCardPayment(cfg)
           IN  [cfg |-> cfg, pc |-> h.pc, evs |-> h.evs, fault |-> h.fault,
                ui |-> u, loc |-> loc]
      ELSE IF response.success
        THEN [cfg |-> cfg, pc |-> "done", evs |-> <<Ev("onSuccess", onSuccess(cfg), "")>>,
              fault |-> "none", ui |-> u, loc |-> onSuccess(cfg)]
        ELSE [cfg |-> cfg, pc |-> "done", evs |-> <<>>, fault |-> "unexpected",
              ui |-> u, loc |-> loc]

\* handleCreditCardServerResponse: the configuration, the position reached,
\* the calls made, the UI and the location it leaves.
handleCreditCardServerResponse(response, cfg, u, loc) ==
  IF response.error # ""
    THEN [cfg |-> cfg, pc |-> "done", evs |-> <<Ev("showError", response.error, "")>>,
          fault |-> "server", ui |-> showError(u, response.error), loc |-> loc]
    ELSE IF response.requires_action
      THEN LET c == [cfg EXCEPT !.clientSecret = response.secret]
               h == handleCardPayment(c)
           IN  [cfg |-> c, pc |-> h.pc, evs |-> h.evs, fault |-> h.fault,
                ui |-> u, loc |-> loc]
      ELSE IF response.success
        THEN [cfg |-> cfg, pc |-> "done", evs |-> <<Ev("onSuccess", onSuccess(cfg), "")>>,
              fault |-> "none", ui |-> u, loc |-> onSuccess(cfg)]
        ELSE [cfg |-> cfg, pc |-> "done", evs |-> <<>>, fault |-> "unexpected",
              ui |-> u, loc |-> loc]

\* A continuation whose error branch falls through to the confirmation.
CreditCardServerResponseFallThrough(f, o) ==
  /\ flows[f].kind = "card"
  /\ flows[f].pc = "send"
  /\ LET s == sendPaymentData(o)
     IN  IF s.rejected
           THEN /\ flows' = Upd(f, "card", "done", <<Ev("rejected", s.reason, "")>>,
                                "transport")
                /\ UNCHANGED <<config, ui, location>>
           ELSE LET h == handleCreditCardServerResponse(s.resp, config, ui, location)
                    c == handleCardPayment(config)
                IN  /\ flows' = IF s.resp.error # ""
                                  THEN UpdR(f, "card", c.pc, h.evs \o c.evs, c.fault,
                                            s.resp)
                                  ELSE UpdR(f, "card", h.pc, h.evs, h.fault, s.resp)
                    /\ config' = h.cfg
                    /\ ui' = h.ui
                    /\ location' = h.loc
  /\ UNCHANGED <<ibanForm, initPc, initTrace, stripe, elements, card, sepa, pr, qp>>

\* submit() after sendPaymentData settled
CreditCardServerResponse(f, o) ==
  /\ flows[f].kind = "card"
  /\ flows[f].pc = "send"
  /\ LET s == sendPaymentData(o)
     IN  IF s.rejected
           THEN /\ flows' = Upd(f, "card", "done", <<Ev("rejected", s.reason, "")>>,
                                "transport")
                /\ UNCHANGED <<config, ui, location>>
           ELSE LET h == handleCreditCardServerResponse(s.resp, config, ui, location)
                IN  /\ flows' = UpdR(f, "card", h.pc, h.evs, h.fault, s.resp)
                    /\ config' = h.cfg
                    /\ ui' = h.ui
                    /\ location' = h.loc
  /\ UNCHANGED <<ibanForm, initPc, initTrace, stripe, elements, card, sepa, pr, qp>>

\* A result handler that misses the succeeded status.
handleCardPaymentResultNoSuccess(r, cfg, u, loc) ==
  IF r.kind = "error"
    THEN [evs |-> <<Ev("showError", r.msg, "")>>, fault |-> "processor",
          ui |-> showError(u, r.msg), loc |-> loc]
    ELSE [evs |-> <<>>, fault |-> "unexpected", ui |-> u, loc |-> loc]

\* handleCardPayment after its await: the calls made for the result r, the
\* UI and the location it leaves.
handleCardPaymentResult(r, cfg, u, loc) ==
  CASE r.kind = "throw" ->
         [evs |-> <<>>, fault |-> "exception", ui |-> u, loc |-> loc]
    [] r.kind = "error" ->
         [evs |-> <<Ev("showError", r.msg, "")>>, fault |-> "processor",
          ui |-> showError(u, r.msg), loc |-> loc]
    [] r.kind = "ok" /\ r.status = "succeeded" ->
         [evs |-> <<Ev("onSuccess", onSuccess(cfg), "")>>, fault |-> "none",
          ui |-> u, loc |-> onSuccess(cfg)]
    [] OTHER ->
         [evs |-> <<>>, fault |-> "unexpected", ui |-> u, loc |-> loc]

\* A continuation that clears the pending state after any result.
CreditCardConfirmedClearing(f, r) ==
  /\ flows[f].kind = "card"
  /\ flows[f].pc = "confirm"
  /\ LET h == handleCardPaymentResult(r, config, ui, location)
     IN  /\ flows' = Upd(f, "card", "done", <<Settled(r)>> \o h.evs, h.fault)
         /\ ui' = setPending(h.ui, FALSE)
         /\ location' = h.loc
  /\ UNCHANGED <<ibanForm, initPc, initTrace, stripe, elements, config, card, sepa, pr, qp>>

\* handleCardPayment after confirmCardPayment settled
CreditCardConfirmed(f, r) ==
  /\ flows[f].kind = "card"
  /\ flows[f].pc = "confirm"
  /\ LET h == handleCardPaymentResult(r, config, ui, location)
     IN  /\ flows' = Upd(f, "card", "done", <<Settled(r)>> \o h.evs, h.fault)
         /\ ui' = h.ui
         /\ location' = h.loc
  /\ UNCHANGED <<ibanForm, initPc, initTrace, stripe, elements, config, card, sepa, pr, qp>>

-----------------------------------------------------------------------------
(* SepaDebit (sepa.ts) *)

\* setup(): keeps the IBAN field, the owner field and the additional fields
SepaDebitSetup ==
  /\ PageShown
  /\ ~sepa
  /\ sepa' = TRUE
  /\ UNCHANGED <<ibanForm, initPc, initTrace, stripe, elements, config, ui, location,
                 card, pr, qp, flows>>

\* The confirm operation and its data chosen for a setup response.
sepaConfirmCall(response) ==
  IF response.type # "payment_intent"
    THEN Ev("confirmSepaDebitSetup", response.secret, "")
    ELSE Ev("confirmSepaDebitPayment", response.secret, "setup_future_usage")

\* A catch block that shows an error without a message.
sepaCatchNoMessage(u) ==
  [evs |-> <<Ev("showError", "", "")>>, ui |-> showError(u, "")]

\* The catch block of submit(): the calls made and the UI it leaves.
sepaCatch(u) ==
  [evs |-> <<Ev("showError", "Network failure.", "")>>,
   ui |-> showError(u, "Network failure.")]

\* submit() up to its first await
SepaDebitSubmit(f) ==
  /\ UserCanSubmit
  /\ FreeSlot(f)
  /\ IF ~stripe \/ ~sepa
       THEN /\ flows' = Upd(f, "sepa", "done", <<Ev("preventDefault", "", "")>>, "uninit")
            /\ UNCHANGED ui
       ELSE /\ flows' = Upd(f, "sepa", "send",
                            <<Ev("preventDefault", "", ""), Ev("showLoading", "", ""),
                              Ev("sendPaymentData", "iban", "")>>, "none")
            /\ ui' = showLoading(ui)
  /\ UNCHANGED <<ibanForm, initPc, initTrace, stripe, elements, config, location,
                 card, sepa, pr, qp>>

\* submit() after the setup round-trip settled
SepaDebitSetupResponse(f, o) ==
  /\ flows[f].kind = "sepa"
  /\ flows[f].pc = "send"
  /\ LET s == sendPaymentData(o)
     IN  IF s.rejected
           THEN /\ flows' = Upd(f, "sepa", "done",
                                <<Ev("rejected", s.reason, "")>> \o sepaCatch(ui).evs,
                                "transport")
                /\ ui' = sepaCatch(ui).ui
           ELSE IF s.resp.error # ""
             THEN /\ flows' = UpdR(f, "sepa", "done",
                                   <<Ev("showError", s.resp.error, "")>>, "server",
                                   s.resp)
                  /\ ui' = showError(ui, s.resp.error)
             ELSE IF s.resp.secret # NoSecret
               THEN /\ flows' = UpdR(f, "sepa", "confirm", <<sepaConfirmCall(s.resp)>>,
                                     "none", s.resp)
                    /\ UNCHANGED ui
               ELSE /\ flows' = UpdR(f, "sepa", "ack",
                                     <<Ev("sendPaymentData", "success", "")>>, "none",
                                     s.resp)
                    /\ UNCHANGED ui
  /\ UNCHANGED <<ibanForm, initPc, initTrace, stripe, elements, config, location,
                 card, sepa, pr, qp>>

\* A continuation that calls onSuccess right after the confirmation, without
\* the acknowledgment.
SepaDebitConfirmedNoAck(f, r) ==
  /\ flows[f].kind = "sepa"
  /\ flows[f].pc = "confirm"
  /\ CASE r.kind = "throw" ->
            /\ flows' = Upd(f, "sepa", "done", <<Settled(r)>> \o sepaCatch(ui).evs,
                            "exception")
            /\ ui' = sepaCatch(ui).ui
            /\ UNCHANGED location
       [] r.kind = "error" ->
            /\ flows' = Upd(f, "sepa", "done",
                            <<Settled(r), Ev("showError", r.msg, "")>>, "processor")
            /\ ui' = showError(ui, r.msg)
            /\ UNCHANGED location
       [] OTHER ->
            /\ flows' = Upd(f, "sepa", "done",
                            <<Settled(r), Ev("onSuccess", onSuccess(config), "")>>,
                            "none")
            /\ location' = onSuccess(config)
            /\ UNCHANGED ui
  /\ UNCHANGED <<ibanForm, initPc, initTrace, stripe, elements, config,
                 card, sepa, pr, qp>>

\* submit() after the processor confirmation settled
SepaDebitConfirmed(f, r) ==
  /\ flows[f].kind = "sepa"
  /\ flows[f].pc = "confirm"
  /\ CASE r.kind = "throw" ->
            /\ flows' = Upd(f, "sepa", "done", <<Settled(r)>> \o sepaCatch(ui).evs,
                            "exception")
            /\ ui' = sepaCatch(ui).ui
       [] r.kind = "error" ->
            /\ flows' = Upd(f, "sepa", "done",
                            <<Settled(r), Ev("showError", r.msg, "")>>, "processor")
            /\ ui' = showError(ui, r.msg)
       [] OTHER ->
            /\ flows' = Upd(f, "sepa", "ack",
                            <<Settled(r), Ev("sendPaymentData", "success", "")>>, "none")
            /\ UNCHANGED ui
  /\ UNCHANGED <<ibanForm, initPc, initTrace, stripe, elements, config, location,
                 card, sepa, pr, qp>>

\* submit() after the acknowledgment round-trip settled
SepaDebitAcknowledged(f, o) ==
  /\ flows[f].kind = "sepa"
  /\ flows[f].pc = "ack"
  /\ LET s == sendPaymentData(o)
     IN  IF s.rejected
           THEN /\ flows' = Upd(f, "sepa", "done",
                                <<Ev("rejected", s.reason, "")>> \o sepaCatch(ui).evs,
                                "transport")
                /\ ui' = sepaCatch(ui).ui
                /\ UNCHANGED location
           ELSE /\ flows' = Upd(f, "sepa", "done",
                                <<Ev("onSuccess", onSuccess(config), "")>>, "none")
                /\ location' = onSuccess(config)
                /\ UNCHANGED ui
  /\ UNCHANGED <<ibanForm, initPc, initTrace, stripe, elements, config, card, sepa, pr, qp>>

-----------------------------------------------------------------------------
(* SepaDebit: live validation of the IBAN field (sepa.ts) *)

\* Field values and option values are sequences of characters.
DE == <<"D", "E">>
FR == <<"F", "R">>

\* Values of input#id_iban
IbanValues == {<<>>, <<"D">>, DE \o <<"8">>, FR \o <<"1">>, <<"d", "e", "8">>}

\* data-ibanpattern of the additional fields (<<>>: not set)
IbanPatterns == {<<>>, DE}

\* Option values of select#id_country
CountryOptions == {{}, {DE}, {DE, FR}}

\* The page's IBAN form: the field's value, the block of additional fields
\* with its hidden attribute, the required attribute of its inputs, the
\* field-required class of its labels, and the country select; applied counts
\* the successive runs of the validation on the present value by the same
\* caller (by).
IbanForms ==
  [value : IbanValues, pattern : IbanPatterns, options : CountryOptions,
   hidden : BOOLEAN, required : BOOLEAN, labels : BOOLEAN,
   country : {<<>>}, applied : {0}, by : {"none"}]

PlainForm ==
  [value |-> <<>>, pattern |-> DE, options |-> {DE, FR}, hidden |-> TRUE,
   required |-> FALSE, labels |-> FALSE, country |-> <<>>, applied |-> 0,
   by |-> "none"]

\* Successive runs of the validation followed on one value.
MaxApplied == 2

\* value.match(`^${ibanPattern}.*$`) for a pattern of plain characters
Matches(value, ibanPattern) ==
  /\ Len(value) >= Len(ibanPattern)
  /\ SubSeq(value, 1, Len(ibanPattern)) = ibanPattern

\* value.substring(0, 2)
CountryCode(value) == SubSeq(value, 1, IF Len(value) < 2 THEN Len(value) ELSE 2)

\* The object toggleAdditionalInfo runs on (`this`) and the properties iban
\* and additionalInfoFields it has: the handler after setup(), or the input
\* element when the method runs as the listener setup() registered.
Handler == [iban |-> sepa, additionalInfoFields |-> sepa]
InputElement == [iban |-> FALSE, additionalInfoFields |-> FALSE]

\* A validation that flips the block instead of setting it.
toggleAdditionalInfoFlip(self, form) ==
  IF ~self.iban \/ ~self.additionalInfoFields \/ form.pattern = <<>>
    THEN form
    ELSE [form EXCEPT !.hidden = ~@, !.required = ~@, !.labels = ~@]

\* toggleAdditionalInfo()
toggleAdditionalInfo(self, form) ==
  IF ~self.iban \/ ~self.additionalInfoFields
    THEN form
    ELSE IF form.pattern = <<>>
      THEN form
      ELSE IF Matches(form.value, form.pattern)
        THEN [form EXCEPT !.hidden = FALSE, !.required = TRUE, !.labels = TRUE,
                          !.country = IF CountryCode(form.value) \in form.options
                                        THEN CountryCode(form.value) ELSE @]
        ELSE [form EXCEPT !.hidden = TRUE, !.required = FALSE, !.labels = FALSE]

Applied(form, caller, again) ==
  LET n == IF again /\ ibanForm.by = caller THEN ibanForm.applied + 1 ELSE 1
  IN  [form EXCEPT !.applied = IF n < MaxApplied THEN n ELSE MaxApplied,
                   !.by = caller]

\* A change or keyup event on the IBAN field leaving the value `value`: the
\* listener registered by setup() runs with the input element as `this`.
SepaDebitIbanEvent(value) ==
  /\ PageShown
  /\ sepa
  /\ LET typed == [ibanForm EXCEPT !.value = value]
     IN  ibanForm' = Applied(toggleAdditionalInfo(InputElement, typed),
                             "listener", value = ibanForm.value)
  /\ UNCHANGED <<initPc, initTrace, stripe, elements, config, ui, location,
                 card, sepa, pr, qp, flows>>

\* toggleAdditionalInfo() called on the handler
SepaDebitToggleAdditionalInfo ==
  /\ PageShown
  /\ sepa
  /\ ibanForm' = Applied(toggleAdditionalInfo(Handler, ibanForm), "handler", TRUE)
  /\ UNCHANGED <<initPc, initTrace, stripe, elements, config, ui, location,
                 card, sepa, pr, qp, flows>>

-----------------------------------------------------------------------------
(* PaymentRequestButton (paymentrequest.ts) *)

\* setup() up to `await paymentRequest.canMakePayment()`
PaymentRequestSetup ==
  /\ PageShown
  /\ pr.pc = "none"
  /\ stripe /\ elements
  /\ pr' = [pr EXCEPT !.pc = "canMakePayment"]
  /\ UNCHANGED <<ibanForm, initPc, initTrace, stripe, elements, config, ui, location,
                 card, sepa, qp, flows>>

\* A continuation that reveals and mounts the button whatever the capability
\* check returned.
PaymentRequestAvailabilityUngated(result) ==
  /\ pr.pc = "canMakePayment"
  /\ pr' = [pc |-> "done", containerHidden |-> FALSE, mounted |-> TRUE,
            listening |-> TRUE,
            result |-> IF result THEN "available" ELSE "unavailable"]
  /\ UNCHANGED <<ibanForm, initPc, initTrace, stripe, elements, config, ui, location,
                 card, sepa, qp, flows>>

\* setup() after the capability check settled
PaymentRequestAvailability(result) ==
  /\ pr.pc = "canMakePayment"
  /\ pr' = IF result
             THEN [pc |-> "done", containerHidden |-> FALSE, mounted |-> TRUE,
                   listening |-> TRUE, result |-> "available"]
             ELSE [pr EXCEPT !.pc = "done", !.result = "unavailable"]
  /\ UNCHANGED <<ibanForm, initPc, initTrace, stripe, elements, config, ui, location,
                 card, sepa, qp, flows>>

\* onPaymentMethod() up to its first await
onPaymentMethod(f) ==
  /\ PageShown
  /\ pr.listening
  /\ FreeSlot(f)
  /\ IF ~stripe \/ config.clientSecret = NoSecret
       THEN /\ flows' = Upd(f, "pr", "done", <<>>, "uninit")
            /\ UNCHANGED ui
       ELSE /\ ui' = setPending(ui, TRUE)
            /\ IF config.interval > 0
                 THEN flows' = Upd(f, "pr", "send",
                                   <<Ev("setPending", "true", ""),
                                     Ev("sendPaymentData", "payment_method_id", "")>>,
                                   "none")
                 ELSE flows' = Upd(f, "pr", "confirm",
                                   <<Ev("setPending", "true", ""),
                                     Ev("confirmCardPayment", config.clientSecret, "id")>>,
                                   "none")
  /\ UNCHANGED <<ibanForm, initPc, initTrace, stripe, elements, config, location,
                 card, sepa, pr, qp>>

\* onPaymentMethod() (interval > 0) after sendPaymentData settled
PaymentRequestServerResponse(f, o) ==
  /\ flows[f].kind = "pr"
  /\ flows[f].pc = "send"
  /\ LET s == sendPaymentData(o)
     IN  IF s.rejected
           THEN /\ flows' = Upd(f, "pr", "done", <<Ev("rejected", s.reason, "")>>,
                                "transport")
                /\ UNCHANGED <<ui, location>>
           ELSE IF s.resp.error # ""
             THEN /\ flows' = UpdR(f, "pr", "done",
                                   <<Ev("complete", "fail", ""),
                                     Ev("showError", s.resp.error, "")>>, "server",
                                   s.resp)
                  /\ ui' = showError(ui, s.resp.error)
                  /\ UNCHANGED location
             ELSE IF s.resp.requires_action
               THEN /\ flows' = UpdR(f, "pr", "action",
                                     <<Ev("confirmCardPayment", s.resp.secret, "")>>,
                                     "none", s.resp)
                    /\ UNCHANGED <<ui, location>>
               ELSE /\ flows' = UpdR(f, "pr", "done",
                                     <<Ev("complete", "success", ""),
                                       Ev("onSuccess", onSuccess(config), "")>>, "none",
                                     s.resp)
                    /\ location' = onSuccess(config)
                    /\ UNCHANGED ui
  /\ UNCHANGED <<ibanForm, initPc, initTrace, stripe, elements, config, card, sepa, pr, qp>>

\* onPaymentMethod() (interval > 0) after the required action settled
PaymentRequestActionResult(f, r) ==
  /\ flows[f].kind = "pr"
  /\ flows[f].pc = "action"
  /\ CASE r.kind = "throw" ->
            /\ flows' = Upd(f, "pr", "done", <<Settled(r)>>, "exception")
            /\ UNCHANGED <<ui, location>>
       [] r.kind = "error" ->
            /\ flows' = Upd(f, "pr", "done",
                            <<Settled(r), Ev("complete", "fail", ""), Ev("showError", r.msg, "")>>,
                            "processor")
            /\ ui' = showError(ui, r.msg)
            /\ UNCHANGED location
       [] OTHER ->
            /\ flows' = Upd(f, "pr", "done",
                            <<Settled(r), Ev("complete", "success", ""),
                              Ev("onSuccess", onSuccess(config), "")>>, "none")
            /\ location' = onSuccess(config)
            /\ UNCHANGED ui
  /\ UNCHANGED <<ibanForm, initPc, initTrace, stripe, elements, config, card, sepa, pr, qp>>

\* A continuation that treats requires_action like any other status.
PaymentRequestConfirmedNoContinuation(f, r) ==
  /\ flows[f].kind = "pr"
  /\ flows[f].pc = "confirm"
  /\ CASE r.kind = "throw" ->
            /\ flows' = Upd(f, "pr", "done", <<Settled(r)>>, "exception")
            /\ UNCHANGED <<ui, location>>
       [] r.kind = "error" ->
            /\ flows' = Upd(f, "pr", "done",
                            <<Settled(r), Ev("complete", "fail", ""), Ev("showError", r.msg, "")>>,
                            "processor")
            /\ ui' = showError(ui, r.msg)
            /\ UNCHANGED location
       [] OTHER ->
            /\ flows' = Upd(f, "pr", "done",
                            <<Settled(r), Ev("complete", "success", ""),
                              Ev("onSuccess", onSuccess(config), "")>>, "none")
            /\ location' = onSuccess(config)
            /\ UNCHANGED ui
  /\ UNCHANGED <<ibanForm, initPc, initTrace, stripe, elements, config, card, sepa, pr, qp>>

\* onPaymentMethod() (interval = 0) after the first confirmCardPayment settled
PaymentRequestConfirmed(f, r) ==
  /\ flows[f].kind = "pr"
  /\ flows[f].pc = "confirm"
  /\ CASE r.kind = "throw" ->
            /\ flows' = Upd(f, "pr", "done", <<Settled(r)>>, "exception")
            /\ UNCHANGED <<ui, location>>
       [] r.kind = "error" ->
            /\ flows' = Upd(f, "pr", "done",
                            <<Settled(r), Ev("complete", "fail", ""), Ev("showError", r.msg, "")>>,
                            "processor")
            /\ ui' = showError(ui, r.msg)
            /\ UNCHANGED location
       [] r.kind = "ok" /\ r.status = "requires_action" ->
            /\ flows' = Upd(f, "pr", "confirm2",
                            <<Settled(r), Ev("complete", "success", ""),
                              Ev("confirmCardPayment", config.clientSecret, "")>>, "none")
            /\ UNCHANGED <<ui, location>>
       [] OTHER ->
            /\ flows' = Upd(f, "pr", "done",
                            <<Settled(r), Ev("complete", "success", ""),
                              Ev("onSuccess", onSuccess(config), "")>>, "none")
            /\ location' = onSuccess(config)
            /\ UNCHANGED ui
  /\ UNCHANGED <<ibanForm, initPc, initTrace, stripe, elements, config, card, sepa, pr, qp>>

\* onPaymentMethod() (interval = 0) after the second confirmCardPayment settled
PaymentRequestContinued(f, r) ==
  /\ flows[f].kind = "pr"
  /\ flows[f].pc = "confirm2"
  /\ CASE r.kind = "throw" ->
            /\ flows' = Upd(f, "pr", "done", <<Settled(r)>>, "exception")
            /\ UNCHANGED <<ui, location>>
       [] r.kind = "error" ->
            /\ flows' = Upd(f, "pr", "done", <<Settled(r), Ev("showError", r.msg, "")>>,
                            "processor")
            /\ ui' = showError(ui, r.msg)
            /\ UNCHANGED location
       [] OTHER ->
            /\ flows' = Upd(f, "pr", "done",
                            <<Settled(r), Ev("onSuccess", onSuccess(config), "")>>, "none")
            /\ location' = onSuccess(config)
            /\ UNCHANGED ui
  /\ UNCHANGED <<ibanForm, initPc, initTrace, stripe, elements, config, card, sepa, pr, qp>>

-----------------------------------------------------------------------------
(* QuickPaymentButtonMethod (quickpayment.ts) *)

\* event.billingDetails of the widget's confirm event
BillingDetails ==
  [present : {TRUE}, name : BOOLEAN, email : BOOLEAN]
    \cup {[present |-> FALSE, name |-> FALSE, email |-> FALSE]}

\* event.detail of a donationchange event
AmountIntervals == [amount : {500, 1000}, interval : Intervals]

\* The amount and interval used until the first donationchange event; the
\* overlay `config` is null until then.
fallbackConfig == [amount |-> 500, interval |-> 0]
NoOverlay == [set |-> FALSE, amount |-> 0, interval |-> 0]

\* getElementsConfig(): the options derived from the overlay, or from the
\* fallback while the overlay is null
getElementsConfig(overlay) ==
  LET localConfig == IF overlay.set THEN overlay ELSE fallbackConfig
  IN  [amount |-> localConfig.amount,
       mode |-> IF localConfig.interval > 0 THEN "subscription" ELSE "payment"]

NoFactory == [amount |-> 0, mode |-> "none"]

\* How the page answers the paymentConfirm event: resolve(response),
\* reject(new Error(message)) or reject(something that is no Error).
PayerOutcomes ==
  {[kind |-> "resolve", msg |-> "", resp |-> r] : r \in QuickResponses}
    \cup {[kind |-> "reject", msg |-> m, resp |-> NoResponse] :
            m \in {"", "Failed to fetch"}}
    \cup {[kind |-> "rejectOther", msg |-> "", resp |-> NoResponse]}

\* b || a on strings
OrReversed(a, b) == IF b # "" THEN b ELSE a

\* a || b on strings
Or(a, b) == IF a # "" THEN a ELSE b

\* setup(): registers the donationchange listener, creates the elements
\* factory and the widget, hides and mounts the widget, registers the
\* widget's listeners
QuickPaymentSetup ==
  /\ PageShown
  /\ ~qp.listening
  /\ stripe
  /\ qp' = [qp EXCEPT !.elements = TRUE, !.listening = TRUE,
                      !.factory = getElementsConfig(qp.overlay),
                      !.visibility = "hidden", !.mounted = TRUE]
  /\ UNCHANGED <<ibanForm, initPc, initTrace, stripe, elements, config, ui, location,
                 card, sepa, pr, flows>>

\* A donationchange listener that updates the elements factory at once.
QuickPaymentDonationChangeUpdating(detail) ==
  /\ PageShown
  /\ qp.listening
  /\ qp' = [qp EXCEPT
              !.visibility = IF qp.overlay.set THEN @ ELSE "initial",
              !.containerHidden = IF qp.overlay.set THEN @ ELSE FALSE,
              !.overlay = [set |-> TRUE, amount |-> detail.amount,
                           interval |-> detail.interval],
              !.factory = getElementsConfig([set |-> TRUE, amount |-> detail.amount,
                                             interval |-> detail.interval])]
  /\ UNCHANGED <<ibanForm, initPc, initTrace, stripe, elements, config, ui, location,
                 card, sepa, pr, flows>>

\* The donationchange listener: the first event reveals the widget and its
\* container, every event replaces the overlay.
QuickPaymentDonationChange(detail) ==
  /\ PageShown
  /\ qp.listening
  /\ qp' = [qp EXCEPT
              !.visibility = IF qp.overlay.set THEN @ ELSE "initial",
              !.containerHidden = IF qp.overlay.set THEN @ ELSE FALSE,
              !.overlay = [set |-> TRUE, amount |-> detail.amount,
                           interval |-> detail.interval]]
  /\ UNCHANGED <<ibanForm, initPc, initTrace, stripe, elements, config, ui, location,
                 card, sepa, pr, flows>>

\* A ready listener that reveals the widget and its container as well.
QuickPaymentReadyRevealing(availablePaymentMethods) ==
  /\ PageShown
  /\ qp.listening
  /\ qp.ready = "none"
  /\ qp' = [qp EXCEPT
              !.ready = IF availablePaymentMethods THEN "available" ELSE "empty",
              !.visibility = IF availablePaymentMethods THEN "initial" ELSE @,
              !.containerHidden = IF availablePaymentMethods THEN FALSE ELSE @,
              !.announced = availablePaymentMethods]
  /\ UNCHANGED <<ibanForm, initPc, initTrace, stripe, elements, config, ui, location,
                 card, sepa, pr, flows>>

\* The ready listener, fired by the widget once after it was mounted.
QuickPaymentReady(availablePaymentMethods) ==
  /\ PageShown
  /\ qp.listening
  /\ qp.ready = "none"
  /\ qp' = [qp EXCEPT
              !.ready = IF availablePaymentMethods THEN "available" ELSE "empty",
              !.announced = availablePaymentMethods]
  /\ UNCHANGED <<ibanForm, initPc, initTrace, stripe, elements, config, ui, location,
                 card, sepa, pr, flows>>

\* The widget fires click while no payment sheet is open and no confirm is
\* being handled.
SheetIdle ==
  /\ qp.sheet = "closed"
  /\ \A g \in FlowIds : flows[g].kind = "qp" => flows[g].pc \in {"none", "done"}

\* A click listener that updates and resolves without an overlay.
QuickPaymentClickUnguarded ==
  /\ PageShown
  /\ qp.listening
  /\ SheetIdle
  /\ IF ~stripe \/ ~qp.elements
       THEN qp' = [qp EXCEPT !.click = <<"click">>]
       ELSE qp' = [qp EXCEPT !.click = <<"click", "update", "resolve">>,
                             !.factory = getElementsConfig(qp.overlay),
                             !.sheet = "open"]
  /\ UNCHANGED <<ibanForm, initPc, initTrace, stripe, elements, config, ui, location,
                 card, sepa, pr, flows>>

\* The click listener: the widget opens its sheet when the click is resolved.
QuickPaymentClick ==
  /\ PageShown
  /\ qp.listening
  /\ SheetIdle
  /\ IF ~stripe \/ ~qp.elements \/ ~qp.overlay.set
       THEN qp' = [qp EXCEPT !.click = <<"click">>]
       ELSE qp' = [qp EXCEPT !.click = <<"click", "update", "resolve">>,
                             !.factory = getElementsConfig(qp.overlay),
                             !.sheet = "open"]
  /\ UNCHANGED <<ibanForm, initPc, initTrace, stripe, elements, config, ui, location,
                 card, sepa, pr, flows>>

\* A check that accepts billing details without an email.
billingCompleteNoEmailCheck(b) == b.present

\* The billing details the confirm listener accepts.
billingComplete(b) == b.present /\ b.email

\* The confirm event as delivered to the listener.
OnConfirm(b) ==
  Ev("confirm",
     IF ~b.present THEN "absent" ELSE IF b.email THEN "email" ELSE "no email",
     IF b.name THEN "name" ELSE "no name")

\* The catch block of the confirm listener, for a caught Error with the
\* message msg (isError) or for a caught value that is no Error: the calls
\* made and the UI it leaves.
quickCatch(u, isError, msg) ==
  LET text == Or(msg, "An error occurred while processing the payment.")
  IN  IF isError
        THEN [evs |-> <<Ev("showError", text, "")>>, ui |-> showError(u, text)]
        ELSE [evs |-> <<>>, ui |-> u]

\* No message handed over yet.
NoMessage == [keys |-> {}, name |-> "", email |-> ""]

\* The data object the confirm listener passes to sendPayerData for the
\* billing details b: its keys, and the name and email it carries.
PayerData(b) ==
  [keys |-> {"name", "email", "city", "postcode", "country", "street_address_1",
             "street_address_2"},
   name |-> IF b.name THEN "name" ELSE "undefined",
   email |-> "email"]

\* The confirm listener up to its first await; the widget fires confirm from
\* the sheet a resolved click opened.
QuickPaymentConfirm(f, b) ==
  /\ PageShown
  /\ qp.listening
  /\ qp.sheet = "open"
  /\ FreeSlot(f)
  /\ qp' = [qp EXCEPT !.sheet = "closed",
                      !.sent = IF stripe /\ qp.elements /\ billingComplete(b)
                                 THEN PayerData(b) ELSE @]
  /\ IF ~stripe \/ ~qp.elements
       THEN /\ flows' = Upd(f, "qp", "done", <<OnConfirm(b)>>, "uninit")
            /\ UNCHANGED ui
       ELSE IF ~billingComplete(b)
         THEN /\ flows' = Upd(f, "qp", "done",
                              <<OnConfirm(b), Ev("paymentFailed", "fail", "")>>,
                              "validation")
              /\ UNCHANGED ui
         ELSE /\ flows' = Upd(f, "qp", "payer",
                              <<OnConfirm(b), Ev("showLoading", "", ""),
                                Ev("dispatchEvent", "paymentConfirm", "")>>, "none")
              /\ ui' = showLoading(ui)
  /\ UNCHANGED <<ibanForm, initPc, initTrace, stripe, elements, config, location,
                 card, sepa, pr>>

\* A continuation that does not look at response.error.
QuickPaymentPayerDataUnchecked(f, o) ==
  /\ flows[f].kind = "qp"
  /\ flows[f].pc = "payer"
  /\ IF o.kind # "resolve"
       THEN LET c == quickCatch(ui, o.kind = "reject", o.msg)
            IN  /\ flows' = Upd(f, "qp", "done",
                                <<Ev("payerRejected", o.msg, "")>> \o c.evs, "transport")
                /\ ui' = c.ui
       ELSE /\ flows' = UpdR(f, "qp", "confirm",
                             <<Ev("confirmPayment", o.resp.secret,
                                  Or(o.resp.successurl, config.successurl))>>,
                             "none", o.resp)
            /\ UNCHANGED ui
  /\ UNCHANGED <<ibanForm, initPc, initTrace, stripe, elements, config, location,
                 card, sepa, pr, qp>>

\* The confirm listener after the page answered the paymentConfirm event
QuickPaymentPayerData(f, o) ==
  /\ flows[f].kind = "qp"
  /\ flows[f].pc = "payer"
  /\ IF o.kind # "resolve"
       THEN LET c == quickCatch(ui, o.kind = "reject", o.msg)
            IN  /\ flows' = Upd(f, "qp", "done",
                                <<Ev("payerRejected", o.msg, "")>> \o c.evs, "transport")
                /\ ui' = c.ui
       ELSE IF o.resp.error # ""
         THEN /\ flows' = UpdR(f, "qp", "done", <<Ev("showError", o.resp.error, "")>>,
                               "server", o.resp)
              /\ ui' = showError(ui, o.resp.error)
         ELSE /\ flows' = UpdR(f, "qp", "confirm",
                               <<Ev("confirmPayment", o.resp.secret,
                                    Or(o.resp.successurl, config.successurl))>>,
                               "none", o.resp)
              /\ UNCHANGED ui
  /\ UNCHANGED <<ibanForm, initPc, initTrace, stripe, elements, config, location,
                 card, sepa, pr, qp>>

\* The confirm listener after confirmPayment settled
QuickPaymentConfirmed(f, r) ==
  /\ flows[f].kind = "qp"
  /\ flows[f].pc = "confirm"
  /\ LET url == Or(Or(flows[f].resp.successurl, config.successurl), "/")
     IN  CASE r.kind = "throw" ->
                LET c == quickCatch(ui, TRUE, r.msg)
                IN  /\ flows' = Upd(f, "qp", "done", <<Settled(r)>> \o c.evs,
                                    "exception")
                    /\ ui' = c.ui
                    /\ UNCHANGED location
           [] r.kind = "error" ->
                /\ flows' = Upd(f, "qp", "done",
                                <<Settled(r), Ev("showError", r.msg, "")>>, "processor")
                /\ ui' = showError(ui, r.msg)
                /\ UNCHANGED location
           [] OTHER ->
                /\ flows' = Upd(f, "qp", "done",
                                <<Settled(r), Ev("redirect", url, "")>>, "none")
                /\ location' = url
                /\ UNCHANGED ui
  /\ UNCHANGED <<ibanForm, initPc, initTrace, stripe, elements, config, card, sepa, pr, qp>>

-----------------------------------------------------------------------------
(* Specification *)

\* The state after `new Payment(ui, config)`: the SDK load has been started,
\* nothing else has run, the page shows the template's markup.
InitPage ==
  /\ initPc = "constructed"
  /\ initTrace = <<"loadStripe">>
  /\ stripe = FALSE
  /\ elements = FALSE
  /\ config \in [clientSecret : ConfiguredSecrets, interval : Intervals,
                 successurl : SuccessUrls]
  /\ ui \in [kind : {"default", "erroronly"}, formButtonDisabled : {FALSE},
             loadingHidden : {FALSE}, containerHidden : {FALSE},
             errorHidden : {TRUE}, errorText : {""}, errorContainer : {""}]
  /\ location = "page"
  /\ card = FALSE
  /\ sepa = FALSE
  /\ pr = [pc |-> "none", containerHidden |-> TRUE, mounted |-> FALSE,
           listening |-> FALSE, result |-> "none"]
  /\ qp = [elements |-> FALSE, listening |-> FALSE, mounted |-> FALSE,
           visibility |-> "initial", containerHidden |-> TRUE,
           overlay |-> NoOverlay, factory |-> NoFactory, ready |-> "none",
           announced |-> FALSE, sheet |-> "closed", click |-> <<>>,
           sent |-> NoMessage]
  /\ flows = [f \in FlowIds |-> NoFlow]

Init == InitPage /\ ibanForm = PlainForm

\* Pages whose IBAN form is in any of its states
InitIban == InitPage /\ ibanForm \in IbanForms

Engine ==
  \/ PaymentInit
  \/ \E loaded \in LoadOutcomes : PaymentInitResolve(loaded)

CreditCard ==
  \/ CreditCardSetup
  \/ \E f \in FlowIds : CreditCardSubmit(f)
  \/ \E f \in FlowIds, r \in MethodResults : CreditCardMethodCreated(f, r)
  \/ \E f \in FlowIds, o \in FetchOutcomes(CardResponses) : CreditCardServerResponse(f, o)
  \/ \E f \in FlowIds, r \in ConfirmResults : CreditCardConfirmed(f, r)

SepaDebit ==
  \/ SepaDebitSetup
  \/ \E f \in FlowIds : SepaDebitSubmit(f)
  \/ \E f \in FlowIds, o \in FetchOutcomes(SepaResponses) : SepaDebitSetupResponse(f, o)
  \/ \E f \in FlowIds, r \in ErrorOrNot : SepaDebitConfirmed(f, r)
  \/ \E f \in FlowIds, o \in FetchOutcomes({NoResponse}) : SepaDebitAcknowledged(f, o)

PaymentRequestButton ==
  \/ PaymentRequestSetup
  \/ \E result \in BOOLEAN : PaymentRequestAvailability(result)
  \/ \E f \in FlowIds : onPaymentMethod(f)
  \/ \E f \in FlowIds, o \in FetchOutcomes(CardResponses) : PaymentRequestServerResponse(f, o)
  \/ \E f \in FlowIds, r \in ConfirmResults : PaymentRequestActionResult(f, r)
  \/ \E f \in FlowIds, r \in ConfirmResults : PaymentRequestConfirmed(f, r)
  \/ \E f \in FlowIds, r \in ConfirmResults : PaymentRequestContinued(f, r)

QuickPaymentButtonMethod ==
  \/ QuickPaymentSetup
  \/ \E detail \in AmountIntervals : QuickPaymentDonationChange(detail)
  \/ \E availablePaymentMethods \in BOOLEAN : QuickPaymentReady(availablePaymentMethods)
  \/ QuickPaymentClick
  \/ \E f \in FlowIds, b \in BillingDetails : QuickPaymentConfirm(f, b)
  \/ \E f \in FlowIds, o \in PayerOutcomes : QuickPaymentPayerData(f, o)
  \/ \E f \in FlowIds, r \in ErrorOrNot : QuickPaymentConfirmed(f, r)

SepaDebitValidation ==
  \/ \E value \in IbanValues : SepaDebitIbanEvent(value)
  \/ SepaDebitToggleAdditionalInfo

\* A page with every payment surface
Next ==
  \/ Engine
  \/ CreditCard
  \/ SepaDebit
  \/ SepaDebitValidation
  \/ PaymentRequestButton
  \/ QuickPaymentButtonMethod

Spec == Init /\ [][Next]_vars

\* Pages with one payment surface
NextCard == Engine \/ CreditCard
SpecCard == Init /\ [][NextCard]_vars

NextSepa == Engine \/ SepaDebit
SpecSepa == Init /\ [][NextSepa]_vars

NextIban == SepaDebitSetup \/ SepaDebitValidation
SpecIban == InitIban /\ [][NextIban]_vars

NextRequest == Engine \/ PaymentRequestButton
SpecRequest == Init /\ [][NextRequest]_vars

NextQuick == Engine \/ QuickPaymentButtonMethod
SpecQuick == Init /\ [][NextQuick]_vars

\* Pages with the card form and the wallet button
NextCardRequest == Engine \/ CreditCard \/ PaymentRequestButton
SpecCardRequest == Init /\ [][NextCardRequest]_vars

-----------------------------------------------------------------------------
(* Observations on flows *)

Done(f) == flows[f].pc = "done"
InFlight(f) == flows[f].pc \notin {"none", "done"}

\* The page is not ready for input: the container is hidden or the submit
\* button is disabled.
Pending(u) == u.containerHidden \/ u.formButtonDisabled

\* The error message on display.
Displayed(u) ==
  IF u.kind = "default"
    THEN IF u.errorHidden THEN "" ELSE u.errorText
    ELSE u.errorContainer

Count(t, e) == Cardinality({i \in DOMAIN t : t[i].ev = e})
Has(t, e, a) == \E i \in DOMAIN t : t[i].ev = e /\ t[i].arg = a

ExternalCalls ==
  {"createPaymentMethod", "confirmCardPayment", "confirmSepaDebitSetup",
   "confirmSepaDebitPayment", "confirmPayment", "sendPaymentData", "dispatchEvent"}
PendingCalls == {"setPending", "showLoading"}

\* The flow f ends in this step.
Ends(f) == flows'[f].pc = "done" /\ flows'[f] # flows[f]

-----------------------------------------------------------------------------
(* Claims *)

\* C1: on a displayed page with the full-page UI, once the engine is
\* initialised, the UI is pending exactly while some submission is in flight;
\* in particular it is not pending when every flow has ended.
C1_PendingIffInFlight ==
  (ui.kind = "default" /\ initPc = "ready" /\ PageShown)
    => (Pending(ui) <=> \E f \in FlowIds : InFlight(f))

\* C2: a flow that ends with a validation fault, a processor error, a server
\* error or a transport failure, no other flow being in flight, leaves the UI
\* ready: not pending, submit button enabled.
C2_FaultsRecoverToReady ==
  [][\A f \in FlowIds :
       (/\ Ends(f)
        /\ flows'[f].fault \in {"validation", "processor", "server", "transport"}
        /\ \A g \in FlowIds \ {f} : ~InFlight(g))
         => ~Pending(ui')]_vars

\* C3: a network failure of the POST reaches the caller of sendPaymentData as
\* the error "Network failure", and the caller displays a message.
C3_NetworkFailureSurfaced ==
  \A f \in FlowIds :
    \A i \in DOMAIN flows[f].trace :
      flows[f].trace[i].ev = "rejected"
        => /\ flows[f].trace[i].arg = "Network failure"
           /\ \E j \in DOMAIN flows[f].trace :
                j > i /\ flows[f].trace[j].ev = "showError"

\* C4: the UI is put into the pending/loading state before the first
\* asynchronous external call of a flow starts (for initialization: before
\* the SDK load starts), and it is not pending once every flow has ended.
C4_PendingBeforeAsyncCall ==
  /\ initPc # "constructed"
       => \E i, j \in DOMAIN initTrace :
            i < j /\ initTrace[i] = "setPending(true)" /\ initTrace[j] = "loadStripe"
  /\ \A f \in FlowIds :
       \A j \in DOMAIN flows[f].trace :
         flows[f].trace[j].ev \in ExternalCalls
           => \E i \in 1..(j - 1) : flows[f].trace[i].ev \in PendingCalls
  /\ (ui.kind = "default" /\ initPc = "ready" /\ \A f \in FlowIds : ~InFlight(f))
       => ~Pending(ui)

\* C5: a one-off card flow (interval = 0) whose confirm-card-payment call
\* returned status "succeeded" without error called onSuccess exactly once
\* and showError not at all.
C5_OneOffSucceeded ==
  \A f \in FlowIds :
    (/\ flows[f].kind = "card"
     /\ config.interval = 0
     /\ Has(flows[f].trace, "settled", "succeeded"))
      => /\ Count(flows[f].trace, "onSuccess") = 1
         /\ Count(flows[f].trace, "showError") = 0

C5_Witness ==
  \E f \in FlowIds :
    /\ flows[f].kind = "card"
    /\ config.interval = 0
    /\ Has(flows[f].trace, "confirmCardPayment", "sec_1")
    /\ Has(flows[f].trace, "settled", "succeeded")
    /\ Has(flows[f].trace, "onSuccess", "/thanks")
    /\ Done(f)

\* C6: in a recurring card flow (interval > 0) whose server response has no
\* error, requires_action and a payment_intent_client_secret, exactly one
\* confirm-card-payment call is made, and it is made with that secret.
C6_ConfirmsWithReturnedSecret ==
  \A f \in FlowIds :
    (/\ flows[f].kind = "card"
     /\ config.interval > 0
     /\ flows[f].resp.error = ""
     /\ flows[f].resp.requires_action
     /\ flows[f].resp.secret # NoSecret)
      => /\ Count(flows[f].trace, "confirmCardPayment") = 1
         /\ Has(flows[f].trace, "confirmCardPayment", flows[f].resp.secret)

C6_Witness ==
  \E f \in FlowIds :
    /\ flows[f].kind = "card"
    /\ config.interval > 0
    /\ flows[f].resp.requires_action
    /\ flows[f].resp.secret = "sec_2"
    /\ flows[f].pc = "confirm"
    /\ Has(flows[f].trace, "confirmCardPayment", "sec_2")
    /\ ~Has(flows[f].trace, "confirmCardPayment", "sec_1")

\* C7: a mandate flow confirms a response whose type is not "payment_intent"
\* with the setup confirmation, and a response whose type is "payment_intent"
\* with the payment confirmation, requesting setup_future_usage exactly when
\* response.customer is true.
C7_MandateRouting ==
  \A f \in FlowIds :
    \A i \in DOMAIN flows[f].trace :
      (flows[f].kind = "sepa"
         /\ flows[f].trace[i].ev \in {"confirmSepaDebitSetup", "confirmSepaDebitPayment"})
        => IF flows[f].resp.type # "payment_intent"
             THEN flows[f].trace[i].ev = "confirmSepaDebitSetup"
             ELSE /\ flows[f].trace[i].ev = "confirmSepaDebitPayment"
                  /\ (flows[f].trace[i].pm = "setup_future_usage")
                       <=> flows[f].resp.customer

\* C8: a mandate flow that ends on an exception (a rejected round-trip or a
\* confirmation that threw) displays "Network failure.", leaves the UI not
\* pending and has not called onSuccess.
C8_MandateExceptionCaught ==
  [][\A f \in FlowIds :
       (/\ flows'[f].kind = "sepa"
        /\ Ends(f)
        /\ \/ Count(flows'[f].trace, "rejected") > 0
           \/ Has(flows'[f].trace, "settled", "throw"))
         => /\ Displayed(ui') = "Network failure."
            /\ ~Pending(ui')
            /\ Count(flows'[f].trace, "onSuccess") = 0]_vars

C8_Witness ==
  \E f \in FlowIds :
    /\ flows[f].kind = "sepa"
    /\ Done(f)
    /\ Has(flows[f].trace, "sendPaymentData", "success")
    /\ Has(flows[f].trace, "rejected", "Failed to fetch")
    /\ Displayed(ui) = "Network failure."
    /\ ui.kind = "default"
    /\ ~Pending(ui)

\* C9: every payment-method selection handled by the wallet button gets
\* ev.complete exactly once by the time the handler ends, never more, and no
\* confirm call is made after ev.complete.
C9_CompleteOnceAfterOutcome ==
  \A f \in FlowIds :
    flows[f].kind = "pr"
      => /\ Count(flows[f].trace, "complete") <= 1
         /\ Done(f) => Count(flows[f].trace, "complete") = 1
         /\ \A i, j \in DOMAIN flows[f].trace :
              (i < j /\ flows[f].trace[i].ev = "complete")
                => flows[f].trace[j].ev # "confirmCardPayment"

\* C10: an express-checkout confirm whose billing details are absent or lack
\* an email ends at once with one paymentFailed call, without showing the
\* loading state, dispatching paymentConfirm or sending payment data.
C10_MissingEmailAborts ==
  \A f \in FlowIds :
    (/\ flows[f].kind = "qp"
     /\ \/ Has(flows[f].trace, "confirm", "absent")
        \/ Has(flows[f].trace, "confirm", "no email"))
      => /\ Done(f)
         /\ Count(flows[f].trace, "paymentFailed") = 1
         /\ Count(flows[f].trace, "showLoading") = 0
         /\ Count(flows[f].trace, "dispatchEvent") = 0
         /\ Count(flows[f].trace, "sendPaymentData") = 0
         /\ Count(flows[f].trace, "confirmPayment") = 0

C10_Witness ==
  \E f \in FlowIds :
    /\ flows[f].kind = "qp"
    /\ Has(flows[f].trace, "confirm", "no email")
    /\ Has(flows[f].trace, "paymentFailed", "fail")
    /\ Done(f)

\* C11: an express-checkout confirm whose billing details carry an email but
\* no name ends at once with one paymentFailed call and dispatches no
\* paymentConfirm request.
C11_MissingNameAborts ==
  \A f \in FlowIds :
    \A i \in DOMAIN flows[f].trace :
      (/\ flows[f].kind = "qp"
       /\ flows[f].trace[i] = Ev("confirm", "email", "no name"))
        => /\ Done(f)
           /\ Count(flows[f].trace, "paymentFailed") = 1
           /\ Count(flows[f].trace, "dispatchEvent") = 0

\* The additional fields are as the validation leaves them for the present
\* IBAN value.
Validated(form) ==
  IF Matches(form.value, form.pattern)
    THEN /\ ~form.hidden
         /\ form.required
         /\ form.labels
         /\ CountryCode(form.value) \in form.options
              => form.country = CountryCode(form.value)
    ELSE /\ form.hidden
         /\ ~form.required
         /\ ~form.labels

\* C12: after setup, once a change or keyup event has run the listener on
\* the present IBAN value and a pattern is configured, the additional fields
\* are revealed and required with the country preselected when the value
\* starts with the pattern, and hidden and not required when it does not.
C12_LiveValidationApplied ==
  (sepa /\ ibanForm.by = "listener" /\ ibanForm.pattern # <<>>)
    => Validated(ibanForm)

\* C13: a run of the validation that follows a run by the same caller on an
\* unchanged IBAN value changes neither the block's hidden flag, nor the
\* required flags, nor the labels' classes, nor the selected country.
C13_ValidationIdempotent ==
  [][(/\ ibanForm.applied >= 1
      /\ ibanForm'.by = ibanForm.by
      /\ ibanForm'.value = ibanForm.value)
       => /\ ibanForm'.hidden = ibanForm.hidden
          /\ ibanForm'.required = ibanForm.required
          /\ ibanForm'.labels = ibanForm.labels
          /\ ibanForm'.country = ibanForm.country]_vars

C13_Witness ==
  /\ ibanForm.by = "handler"
  /\ ibanForm.applied = MaxApplied
  /\ ibanForm.value = DE \o <<"8">>
  /\ ibanForm.pattern = DE
  /\ ~ibanForm.hidden
  /\ ibanForm.country = DE

\* C14: in every flow, a call of onSuccess or a redirect that follows results
\* of processor confirm calls (not of a tokenization) follows a last result
\* whose status is "succeeded".
C14_SuccessOnlyOnSucceeded ==
  \A f \in FlowIds :
    \A i, j \in DOMAIN flows[f].trace :
      (/\ i < j
       /\ flows[f].trace[j].ev \in {"onSuccess", "redirect"}
       /\ flows[f].trace[i].ev = "settled"
       /\ flows[f].trace[i].arg # "method"
       /\ \A k \in (i + 1)..(j - 1) : flows[f].trace[k].ev # "settled")
        => flows[f].trace[i].arg = "succeeded"

\* C15: no step of any handler changes the Session configuration held by the
\* engine, so that it keeps the value it had at construction.
C15_SessionNeverMutated ==
  [][config' = config]_vars

\* init() has returned or thrown.
InitCompleted == initPc \notin {"constructed", "loading"}

\* C16: init() completes in one of two ways: the page is reloaded with the
\* SDK handle and the elements factory unset, or both are set, in that order
\* before pending is cleared, and the UI is not pending at completion.
C16_InitTwoOutcomes ==
  [][(~InitCompleted /\ InitCompleted')
       => \/ /\ location' = "reload"
             /\ ~stripe'
             /\ ~elements'
          \/ /\ stripe'
             /\ elements'
             /\ \E i, j, k \in DOMAIN initTrace' :
                  /\ i < k /\ j < k
                  /\ initTrace'[i] = "stripe"
                  /\ initTrace'[j] = "elements"
                  /\ initTrace'[k] = "setPending(false)"
             /\ ~Pending(ui')]_vars

SepaConfirmCalls == {"confirmSepaDebitSetup", "confirmSepaDebitPayment"}

\* The acknowledgment {success: true} has been sent by the flow record w.
Acked(w) == Has(w.trace, "sendPaymentData", "success")

\* C17: a mandate flow calls onSuccess only in the step in which its
\* acknowledgment round-trip completes; a setup response without error and
\* without secret is followed by the acknowledgment with no processor
\* confirmation call, one with a secret by the confirmation alone, and a
\* confirmation that succeeded by the acknowledgment.
C17_AckBeforeSuccess ==
  [][\A f \in FlowIds :
       flows'[f].kind = "sepa"
         => /\ Count(flows'[f].trace, "onSuccess") > Count(flows[f].trace, "onSuccess")
                 => /\ flows[f].kind = "sepa"
                    /\ flows[f].pc = "ack"
                    /\ Acked(flows[f])
            /\ (flows[f].pc = "send" /\ flows'[f].pc \notin {"send", "done"})
                 => IF flows'[f].resp.secret = NoSecret
                      THEN /\ flows'[f].pc = "ack"
                           /\ Acked(flows'[f])
                           /\ \A e \in SepaConfirmCalls : Count(flows'[f].trace, e) = 0
                      ELSE /\ flows'[f].pc = "confirm"
                           /\ ~Acked(flows'[f])
            /\ (flows[f].pc = "confirm" /\ Has(flows'[f].trace, "settled", "succeeded"))
                 => /\ flows'[f].pc = "ack"
                    /\ Acked(flows'[f])]_vars

C17_Witness ==
  \E f \in FlowIds :
    /\ flows[f].kind = "sepa"
    /\ Done(f)
    /\ flows[f].resp.secret = NoSecret
    /\ Acked(flows[f])
    /\ \A e \in SepaConfirmCalls : Count(flows[f].trace, e) = 0
    /\ Has(flows[f].trace, "onSuccess", "/thanks")

\* C18: unless the capability check has returned an available result, the
\* wallet button's container is hidden, the button is not mounted, no
\* payment-method handler is registered and no selection has been handled.
C18_ButtonGatedOnAvailability ==
  pr.result # "available"
    => /\ pr.containerHidden
       /\ ~pr.mounted
       /\ ~pr.listening
       /\ \A f \in FlowIds : flows[f].kind # "pr"

C18_Witness ==
  /\ pr.pc = "done"
  /\ pr.result = "unavailable"
  /\ pr.containerHidden
  /\ ~pr.mounted
  /\ ~pr.listening

\* C19: from the mount of the express-checkout widget until the first
\* donationchange event, whatever other events arrive, the widget is hidden
\* and the elements factory holds the options derived from the fallback
\* amount and interval.
C19_HiddenUntilFirstNotification ==
  (qp.mounted /\ ~qp.overlay.set)
    => /\ qp.visibility = "hidden"
       /\ qp.factory = getElementsConfig([set |-> TRUE, amount |-> 500,
                                          interval |-> 0])

C19_Witness ==
  /\ qp.mounted
  /\ ~qp.overlay.set
  /\ qp.ready = "available"
  /\ qp.announced
  /\ qp.click = <<"click">>
  /\ qp.visibility = "hidden"

\* C20: the ready listener, when payment methods are available, reveals the
\* widget and its container and dispatches quickpaymentAvailable; when none
\* is available it reveals nothing and dispatches nothing.
C20_ReadyRevealsAndAnnounces ==
  [][(qp.ready = "none" /\ qp'.ready # "none")
       => IF qp'.ready = "available"
            THEN /\ qp'.visibility = "initial"
                 /\ ~qp'.containerHidden
                 /\ qp'.announced
            ELSE /\ qp'.visibility = qp.visibility
                 /\ qp'.containerHidden = qp.containerHidden
                 /\ ~qp'.announced]_vars

\* C21: every click handled by the express-checkout click listener updated
\* the elements factory and then resolved the click event, in that order and
\* within the same call of the listener.
C21_ClickUpdatesThenResolves ==
  qp.click # <<>> => qp.click = <<"click", "update", "resolve">>

\* C22: an express-checkout confirm whose payer-data response carries an
\* error has reported that error through showError, has ended, and has
\* neither called confirmPayment nor redirected.
C22_QuickServerErrorStops ==
  \A f \in FlowIds :
    (flows[f].kind = "qp" /\ flows[f].resp.error # "")
      => /\ Done(f)
         /\ Count(flows[f].trace, "showError") = 1
         /\ Has(flows[f].trace, "showError", flows[f].resp.error)
         /\ Count(flows[f].trace, "confirmPayment") = 0
         /\ Count(flows[f].trace, "redirect") = 0
         /\ PageShown

C22_Witness ==
  \E f \in FlowIds :
    /\ flows[f].kind = "qp"
    /\ flows[f].resp.error # ""
    /\ flows[f].fault = "server"
    /\ Has(flows[f].trace, "dispatchEvent", "paymentConfirm")
    /\ Has(flows[f].trace, "showError", flows[f].resp.error)

\* The redirect target of the flow record w: the successurl of its server
\* response if it carries one, the configured successurl otherwise.
RedirectTarget(w) ==
  IF w.resp.successurl # "" THEN w.resp.successurl ELSE config.successurl

\* C23: in an express-checkout confirm flow, the return_url passed to
\* confirmPayment and the target of the navigation after a confirmation
\* without error are the response's successurl when it carries one and the
\* configured successurl otherwise.
C23_QuickRedirectTarget ==
  \A f \in FlowIds :
    \A i \in DOMAIN flows[f].trace :
      flows[f].kind = "qp"
        => /\ flows[f].trace[i].ev = "confirmPayment"
                => flows[f].trace[i].pm = RedirectTarget(flows[f])
           /\ flows[f].trace[i].ev = "redirect"
                => /\ flows[f].trace[i].arg = RedirectTarget(flows[f])
                   /\ location = RedirectTarget(flows[f])

C23_Witness ==
  \E f \in FlowIds :
    /\ flows[f].kind = "qp"
    /\ flows[f].resp.successurl = "/srv"
    /\ Has(flows[f].trace, "settled", "succeeded")
    /\ Has(flows[f].trace, "redirect", "/srv")
    /\ location = "/srv"

ConfirmCalls ==
  {"confirmCardPayment", "confirmSepaDebitSetup", "confirmSepaDebitPayment",
   "confirmPayment"}

\* The messages that start a server round-trip.
ServerCalls == {"sendPaymentData", "dispatchEvent"}

\* The flow record w confirms with what the server issued in its own
\* round-trip: the mandate and express-checkout flows, and the recurring card
\* and wallet-button flows.
ServerIssued(w) ==
  \/ w.kind \in {"sepa", "qp"}
  \/ w.kind \in {"card", "pr"} /\ config.interval > 0

\* The calls the run in slot f makes in this step.
NewEvents(f) ==
  IF flows'[f] = flows[f]
    THEN {}
    ELSE {i \in DOMAIN flows'[f].trace :
            i > (IF flows[f].pc \in {"none", "done"} THEN 0 ELSE Len(flows[f].trace))}

FormFlows == {f \in FlowIds : InFlight(f) /\ flows[f].kind \in {"card", "sepa"}}

\* C25: on the full-page UI, while a card or mandate submission is in flight
\* the submit control is disabled, and no second submission is in flight on the
\* same form.
C25_OneFlowPerForm ==
  (ui.kind = "default" /\ FormFlows # {})
    => ui.formButtonDisabled /\ Cardinality(FormFlows) = 1

\* C26: a flow whose fetch failed at the transport level has caught the
\* failure and shown the generic network-failure message, and has shown no
\* other text.
C26_TransportFaultGeneric ==
  \A f \in FlowIds :
    flows[f].fault = "transport"
      => /\ Has(flows[f].trace, "showError", "Network failure.")
         /\ \A i \in DOMAIN flows[f].trace :
              flows[f].trace[i].ev = "showError"
                => flows[f].trace[i].arg = "Network failure."

\* C27: every navigation that ends a successful flow, of any handler, goes to
\* the successurl of the flow's server response when it carries one, and to
\* the configured successurl otherwise.
C27_SuccessFollowsOverride ==
  \A f \in FlowIds :
    \A i \in DOMAIN flows[f].trace :
      flows[f].trace[i].ev \in {"onSuccess", "redirect"}
        => flows[f].trace[i].arg = RedirectTarget(flows[f])

\* C28: every submit event the card handler has handled, with its card
\* element set up and the SDK loaded, had its default prevented and put the UI
\* into the pending state, whatever the clientSecret.
C28_SubmitPreventsAndPends ==
  \A f \in FlowIds :
    (flows[f].kind = "card" /\ flows[f].pc # "none" /\ card /\ stripe)
      => /\ Has(flows[f].trace, "preventDefault", "")
         /\ Has(flows[f].trace, "setPending", "true")

\* C29: every card submission with interval > 0, handled with the card
\* element set up and the SDK loaded, has asked the processor to tokenize the
\* card, also when the configuration holds no clientSecret.
C29_RecurringAlwaysTokenizes ==
  \A f \in FlowIds :
    (flows[f].kind = "card" /\ flows[f].pc # "none" /\ card /\ stripe
       /\ config.interval > 0)
      => Has(flows[f].trace, "createPaymentMethod", "")

\* The position in the trace t of the answer to createPaymentMethod, 0 when
\* there is none yet.
Tokenized(t) ==
  IF \E i \in 1..(Len(t) - 1) : t[i].ev = "createPaymentMethod" /\ t[i + 1].ev = "settled"
    THEN 1 + CHOOSE i \in 1..(Len(t) - 1) :
               t[i].ev = "createPaymentMethod" /\ t[i + 1].ev = "settled"
    ELSE 0

\* C30: in the recurring card flow a tokenization error ends the flow with an
\* error shown and no message sent; a tokenization that returned a method is
\* followed by exactly one {payment_method_id} message; a response with an
\* error ends the flow with the error shown and no confirmation; a
\* requires_action response with its payment_intent_client_secret leads to
\* exactly one confirm-card-payment call; a success response leads to
\* onSuccess once, with no confirmation.
C30_RecurringCardTransitions ==
  \A f \in FlowIds :
    (flows[f].kind = "card" /\ config.interval > 0)
      => LET t == flows[f].trace
             r == flows[f].resp
             k == Tokenized(t)
         IN  /\ (k > 0 /\ t[k].arg = "error")
                  => /\ Done(f)
                     /\ Count(t, "showError") = 1
                     /\ Count(t, "sendPaymentData") = 0
                     /\ Count(t, "confirmCardPayment") = 0
             /\ (k > 0 /\ t[k].arg = "method")
                  => /\ Count(t, "sendPaymentData") = 1
                     /\ Has(t, "sendPaymentData", "payment_method_id")
             /\ Count(t, "sendPaymentData") > 0 => (k > 0 /\ t[k].arg = "method")
             /\ r.error # ""
                  => /\ Done(f)
                     /\ Has(t, "showError", r.error)
                     /\ Count(t, "confirmCardPayment") = 0
                     /\ Count(t, "onSuccess") = 0
             /\ (r.error = "" /\ r.requires_action /\ r.secret # NoSecret)
                  => Count(t, "confirmCardPayment") = 1
             /\ (r.error = "" /\ ~r.requires_action /\ r.success)
                  => /\ Done(f)
                     /\ Count(t, "onSuccess") = 1
                     /\ Count(t, "confirmCardPayment") = 0

C30_Witness ==
  \E f \in FlowIds :
    /\ config.interval > 0
    /\ flows[f].kind = "card"
    /\ flows[f].resp.success
    /\ Count(flows[f].trace, "sendPaymentData") = 1
    /\ Count(flows[f].trace, "onSuccess") = 1
    /\ Done(f)

\* The statuses of a confirmation without error that are not "succeeded".
OtherStatuses == Statuses \ {"succeeded"}

\* C31: the step in which a card flow receives a confirmation result without
\* error and with a status other than "succeeded" ends the flow without
\* showing an error and without onSuccess, and leaves the UI as it was: on
\* the full-page UI pending, with the submit button disabled.
C31_UnexpectedStatusLeftPending ==
  [][\A f \in FlowIds :
       (/\ flows[f].kind = "card"
        /\ flows[f].pc = "confirm"
        /\ \E i \in NewEvents(f) :
             /\ flows'[f].trace[i].ev = "settled"
             /\ flows'[f].trace[i].arg \in OtherStatuses)
         => /\ flows'[f].pc = "done"
            /\ Count(flows'[f].trace, "showError") = Count(flows[f].trace, "showError")
            /\ Count(flows'[f].trace, "onSuccess") = 0
            /\ ui' = ui
            /\ location' = location
            /\ ui.kind = "default"
                 => ui'.formButtonDisabled /\ ui'.containerHidden]_vars

C31_Witness ==
  \E f \in FlowIds :
    /\ flows[f].kind = "card"
    /\ Done(f)
    /\ flows[f].fault = "unexpected"
    /\ Has(flows[f].trace, "settled", "requires_action")
    /\ ui.kind = "default"
    /\ ui.formButtonDisabled
    /\ PageShown

\* The positions of the event e in the trace t.
Positions(t, e) == {i \in DOMAIN t : t[i].ev = e}

\* The least element of a non-empty set of positions.
First(S) == CHOOSE i \in S : \A j \in S : i <= j

\* C32: in a one-off wallet-button flow the first confirm call uses the
\* configured clientSecret with the selected payment method; when its result
\* has the status requires_action, a second confirm call follows with the same
\* secret and no payment method, no third one is made, and onSuccess comes
\* only after the second call resolved without error.
C32_OneOffContinuation ==
  \A f \in FlowIds :
    (flows[f].kind = "pr" /\ config.interval = 0)
      => LET t == flows[f].trace
             c == Positions(t, "confirmCardPayment")
             s == Positions(t, "settled")
         IN  /\ Cardinality(c) <= 2
             /\ c # {} => /\ t[First(c)].arg = config.clientSecret
                          /\ t[First(c)].pm = "id"
             /\ (s # {} /\ t[First(s)].arg = "requires_action")
                  => /\ Cardinality(c) = 2
                     /\ \A i \in c \ {First(c)} :
                          /\ i > First(s)
                          /\ t[i].arg = t[First(c)].arg
                          /\ t[i].pm = ""
                     /\ \A j \in Positions(t, "onSuccess") :
                          \E k \in s \ {First(s)} :
                            /\ k < j
                            /\ \A i \in c : i < k
                            /\ t[k].arg \notin {"error", "throw"}
             /\ (s # {} /\ t[First(s)].arg # "requires_action") => Cardinality(c) = 1

C32_Witness ==
  \E f \in FlowIds :
    /\ flows[f].kind = "pr"
    /\ config.interval = 0
    /\ Done(f)
    /\ Count(flows[f].trace, "confirmCardPayment") = 2
    /\ Has(flows[f].trace, "settled", "requires_action")
    /\ Count(flows[f].trace, "onSuccess") = 1

\* The step is a click the listener resolved.
ResolvedClick ==
  /\ qp.sheet = "closed"
  /\ qp'.sheet = "open"
  /\ qp'.click = <<"click", "update", "resolve">>

\* C33: once the elements factory exists, its live configuration changes only
\* in a step of the click listener, which sets it to the configuration derived
\* from the overlay; the donationchange, ready and confirm listeners and every
\* other handler leave it unchanged.
C33_FactoryUpdatedOnlyOnClick ==
  [][(qp.elements /\ qp'.factory # qp.factory)
       => /\ ResolvedClick
          /\ qp'.factory = getElementsConfig(qp.overlay)
          /\ flows' = flows]_vars

C33_Witness ==
  /\ qp.elements
  /\ qp.click = <<"click", "update", "resolve">>
  /\ qp.overlay.set
  /\ qp.factory # getElementsConfig(NoOverlay)
  /\ qp.factory = getElementsConfig(qp.overlay)

\* The keys of QuickPaymentMessage that carry the tag and the derived config.
TaggedKeys == {"type", "amount", "currency", "interval"}

\* C34: the message the express-checkout confirm listener hands over for the
\* server carries the tag and the amount, currency and interval of the derived
\* config, together with the payer's name, email and address fields.
C34_TaggedQuickpaymentMessage ==
  qp.sent # NoMessage
    => /\ TaggedKeys \subseteq qp.sent.keys
       /\ {"name", "email", "city", "postcode", "country", "street_address_1",
           "street_address_2"} \subseteq qp.sent.keys

\* C35: a recurring wallet-button flow calls onSuccess only if its server
\* response reported success, or reported requires_action and the confirm
\* call that followed resolved without error.
C35_RecurringSuccessNeedsFlag ==
  \A f \in FlowIds :
    (flows[f].kind = "pr" /\ config.interval > 0
       /\ Count(flows[f].trace, "onSuccess") > 0)
      => \/ flows[f].resp.success
         \/ /\ flows[f].resp.requires_action
            /\ \E k \in Positions(flows[f].trace, "settled") :
                 flows[f].trace[k].arg \notin {"error", "throw"}

\* C36: no wallet-button attempt that reported 'success' to the native sheet
\* has ended with an error shown and without onSuccess.
C36_SheetStatusMatchesOutcome ==
  \A f \in FlowIds :
    (flows[f].kind = "pr" /\ Done(f) /\ Has(flows[f].trace, "complete", "success"))
      => ~(/\ Count(flows[f].trace, "showError") > 0
           /\ Count(flows[f].trace, "onSuccess") = 0)

\* C37: in the step in which an express-checkout flow calls confirmPayment,
\* the amount and mode held by the elements factory are those derived from
\* the overlay current in that step.
C37_FactoryCurrentAtConfirm ==
  [][\A f \in FlowIds :
       \A i \in NewEvents(f) :
         flows'[f].trace[i].ev = "confirmPayment"
           => qp.factory = getElementsConfig(qp.overlay)]_vars

\* C38: while a card flow and a wallet-button flow are both in flight and the
\* UI is pending, the end of one of them leaves the UI pending for the other:
\* the submit button stays disabled and the container hidden.
C38_PendingHeldForOtherFlow ==
  [][\A f, g \in FlowIds :
       (/\ f # g
        /\ {flows[f].kind, flows[g].kind} = {"card", "pr"}
        /\ InFlight(f) /\ InFlight(g)
        /\ Ends(f)
        /\ flows'[g] = flows[g]
        /\ ui.formButtonDisabled)
         => ui'.formButtonDisabled /\ ui'.containerHidden]_vars

C40_NoConfirmWithoutOverlay ==
  [][/\ ~qp'.overlay.set
          => /\ qp'.sheet = "closed"
             /\ qp'.click \in {<<>>, <<"click">>}
             /\ qp.elements => qp'.factory = getElementsConfig(NoOverlay)
     /\ \A f \in FlowIds :
          \A i \in NewEvents(f) :
            flows'[f].trace[i].ev = "confirmPayment"
              => /\ qp.overlay.set
                 /\ qp.click = <<"click", "update", "resolve">>]_vars

C40_Witness ==
  /\ qp.elements
  /\ ~qp.overlay.set
  /\ qp.click = <<"click">>
  /\ qp.sheet = "closed"
  /\ qp.factory = getElementsConfig(NoOverlay)
  /\ \A f \in FlowIds : flows[f].kind # "qp"

====
